---- MODULE Spec2Model ----
(***************************************************************************)
(* gen_pdf.py: a directory of source files is rendered into one PDF, one   *)
(* page sequence per file, with per-token colouring and line numbers.      *)
(*                                                                         *)
(* Strings are sequences of one-character strings, so that suffix tests,   *)
(* splitting and formatting are computed as Python computes them.  An      *)
(* optional value (Python None) is an empty sequence, a present value v is *)
(* the one-element sequence <<v>>.                                         *)
(***************************************************************************)
EXTENDS Integers, Sequences, FiniteSets, TLC

VARIABLES
    pc,                \* position in main / create_pdf
    directory,         \* what os.walk(args.directory) yields: <<[root, files]>>
    extensions,        \* args.extensions
    exclude_suffix,    \* args.exclude_suffix (optional)
    font_path,         \* args.font_path (optional)
    files_to_process,  \* main's list, create_pdf's `files`
    stdout,            \* what print() has written
    written,           \* the files pdf.output() has written
    calls,             \* number of create_pdf invocations
    font_name,         \* create_pdf's font_name
    fileIdx,           \* position of the `for filepath in files` loop
    line_num,          \* create_pdf's line_num
    pdf,               \* the FPDF object: text colour, font, painted calls
    consumed,          \* tokens of the current file the loop body has taken up
    results            \* outcome of each finished file: "ok" or the failure

vars == <<pc, directory, extensions, exclude_suffix, font_path, files_to_process,
          stdout, written, calls, font_name, fileIdx, line_num, pdf, consumed,
          results>>

(***************************************************************************)
(* Bounds and input sets                                                   *)
(***************************************************************************)
MaxTokens == 2

NL == "\n"

None == <<>>
Some(v) == <<v>>

\* token texts: empty, plain, two consecutive breaks (leading and trailing),
\* and text on both sides of a break
TokenTexts ==
    { <<>>, <<"a">>, <<NL, NL>>, <<"a", NL, "b">> }

TokenKinds == {"Text", "Keyword", "Comment"}

Tokens == [ttype : TokenKinds, tvalue : TokenTexts]

\* what can raise inside the try block of one file
EarlyFailures == {"read", "lexer"}
StreamFailures == {"tokenize", "theme"}

(***************************************************************************)
(* String helpers (Python str methods)                                     *)
(***************************************************************************)
EndsWith(s, suffix) ==
    /\ Len(suffix) <= Len(s)
    /\ SubSeq(s, Len(s) - Len(suffix) + 1, Len(s)) = suffix

\* file.endswith(tuple(extensions)), any(file.endswith(s) for s in ...)
EndsWithAny(s, suffixes) ==
    \E i \in 1..Len(suffixes) : EndsWith(s, suffixes[i])

RECURSIVE LStrip(_, _)
LStrip(s, c) ==
    IF s # <<>> /\ Head(s) = c THEN LStrip(Tail(s), c) ELSE s

\* a split that drops empty segments, as str.split() without argument does
RECURSIVE SplitDropEmpty(_)
SplitDropEmpty(s) ==
    IF \A i \in 1..Len(s) : s[i] # NL
    THEN (IF s = <<>> THEN <<>> ELSE <<s>>)
    ELSE LET i == CHOOSE j \in 1..Len(s) :
                      s[j] = NL /\ \A k \in 1..(j - 1) : s[k] # NL
         IN  (IF i = 1 THEN <<>> ELSE <<SubSeq(s, 1, i - 1)>>)
                 \o SplitDropEmpty(SubSeq(s, i + 1, Len(s)))

\* tvalue.split('\n')
RECURSIVE Split(_)
Split(s) ==
    IF \A i \in 1..Len(s) : s[i] # NL
    THEN <<s>>
    ELSE LET i == CHOOSE j \in 1..Len(s) :
                      s[j] = NL /\ \A k \in 1..(j - 1) : s[k] # NL
         IN  <<SubSeq(s, 1, i - 1)>> \o Split(SubSeq(s, i + 1, Len(s)))

\* os.path.join(root, file)
PathJoin(root, file) ==
    IF root # <<>> /\ root[Len(root)] = "/" THEN root \o file
    ELSE root \o <<"/">> \o file

\* os.path.basename(filepath)
RECURSIVE Basename(_)
Basename(p) ==
    IF \A i \in 1..Len(p) : p[i] # "/" THEN p
    ELSE Basename(Tail(p))

DigitChars == <<"0", "1", "2", "3", "4", "5", "6", "7", "8", "9">>

RECURSIVE Digits(_)
Digits(n) ==
    IF n < 10 THEN <<DigitChars[n + 1]>>
    ELSE Digits(n \div 10) \o <<DigitChars[(n % 10) + 1]>>

RECURSIVE PadLeft(_, _)
PadLeft(s, width) ==
    IF Len(s) >= width THEN s ELSE PadLeft(<<" ">> \o s, width)

\* f"{line_num:4d} "
LabelText(n) == PadLeft(Digits(n), 4) \o <<" ">>

(***************************************************************************)
(* find_files                                                              *)
(***************************************************************************)
\* a filter that lets inclusion win over exclusion
RECURSIVE FilterFilesInclusionWins(_, _, _, _)
FilterFilesInclusionWins(root, files, exts, excl) ==
    IF files = <<>> THEN <<>>
    ELSE LET file == Head(files)
             rest == FilterFilesInclusionWins(root, Tail(files), exts, excl)
         IN  IF EndsWithAny(file, exts) THEN <<PathJoin(root, file)>> \o rest
             ELSE rest

RECURSIVE FilterFiles(_, _, _, _)
FilterFiles(root, files, exts, excl) ==
    IF files = <<>> THEN <<>>
    ELSE LET file == Head(files)
             rest == FilterFiles(root, Tail(files), exts, excl)
         IN  IF ~EndsWithAny(file, exts) THEN rest
             ELSE IF EndsWithAny(file, excl) THEN rest
             ELSE <<PathJoin(root, file)>> \o rest

RECURSIVE WalkFiles(_, _, _)
WalkFiles(walk, exts, excl) ==
    IF walk = <<>> THEN <<>>
    ELSE FilterFiles(Head(walk).root, Head(walk).files, exts, excl)
             \o WalkFiles(Tail(walk), exts, excl)

find_files(dir, exts, exclude_suffixes) ==
    LET excl == IF exclude_suffixes = None THEN <<>> ELSE exclude_suffixes[1]
    IN  WalkFiles(dir, exts, excl)

(***************************************************************************)
(* hex_to_rgb and the theme                                                *)
(***************************************************************************)
HexChars == <<"0", "1", "2", "3", "4", "5", "6", "7", "8", "9",
              "a", "b", "c", "d", "e", "f">>

HexVal(c) == (CHOOSE i \in 1..16 : HexChars[i] = c) - 1

RECURSIVE Doubled(_)
Doubled(s) ==
    IF s = <<>> THEN <<>> ELSE <<Head(s), Head(s)>> \o Doubled(Tail(s))

hex_to_rgb(hex_color) ==
    IF hex_color = None THEN <<0, 0, 0>>
    ELSE LET h0 == LStrip(hex_color[1], "#")
             h  == IF Len(h0) = 3 THEN Doubled(h0) ELSE h0
         IN  IF Len(h) # 6 THEN <<0, 0, 0>>
             ELSE << 16 * HexVal(h[1]) + HexVal(h[2]),
                     16 * HexVal(h[3]) + HexVal(h[4]),
                     16 * HexVal(h[5]) + HexVal(h[6]) >>

\* style.style_for_token(ttype) of the 'colorful' style, for the kinds used
style_for_token(ttype) ==
    CASE ttype = "Keyword" ->
            [color |-> Some(<<"0", "0", "8", "8", "0", "0">>),
             bold |-> TRUE, italic |-> FALSE]
      [] ttype = "Comment" ->
            [color |-> Some(<<"#", "a", "3", "5">>),
             bold |-> FALSE, italic |-> TRUE]
      [] OTHER ->
            [color |-> None, bold |-> FALSE, italic |-> FALSE]

default_text_color == hex_to_rgb(style_for_token("Text").color)

Gray == <<128, 128, 128>>

(***************************************************************************)
(* The FPDF object.  Every call is recorded with the text colour and font  *)
(* in force once it has run, which is what a painting call paints with.    *)
(* pdf.out holds the calls since the last add_page; of the earlier files   *)
(* pdf.done keeps, per file, the page start, the header cells and the      *)
(* error paragraph.                                                        *)
(***************************************************************************)
Font(family, style, size) == [family |-> family, style |-> style, size |-> size]

\* FPDF(): black text, no font selected
NewPdf ==
    [text_color |-> <<0, 0, 0>>, font |-> Font("", <<>>, 12),
     out |-> <<>>, done |-> <<>>]

Emit(p, op, txt, h) ==
    [p EXCEPT !.out = Append(@, [op |-> op, txt |-> txt, h |-> h,
                                 color |-> p.text_color, font |-> p.font])]

set_text_color(p, rgb) ==
    Emit([p EXCEPT !.text_color = rgb], "set_text_color", <<>>, "")

set_font(p, family, style, size) ==
    Emit([p EXCEPT !.font = Font(family, style, size)], "set_font", <<>>, "")

cell(p, h, txt) == Emit(p, "cell", txt, h)

write(p, txt) == Emit(p, "write", txt, "line_height")

ln(p, h) == Emit(p, "ln", <<>>, h)

multi_cell(p, txt) == Emit(p, "multi_cell", txt, "10")

IsHeaderOrError(ins) ==
    \/ ins.op \in {"add_page", "multi_cell"}
    \/ ins.op = "cell" /\ ins.font.family = "Helvetica"

add_page(p) ==
    Emit([p EXCEPT !.done = IF p.out = <<>> THEN @
                            ELSE Append(@, SelectSeq(p.out, IsHeaderOrError)),
                   !.out = <<>>],
         "add_page", <<>>, "")

(***************************************************************************)
(* create_pdf, piece by piece                                              *)
(***************************************************************************)
FontSize == 10

\* lines 53-60: new page and the two header lines
FileHeader(p, filepath) ==
    LET p1 == add_page(p)
        p2 == set_font(p1, "Helvetica", <<"B">>, 16)
        p3 == cell(p2, "10", <<"File: ">> \o Basename(filepath))
        p4 == set_font(p3, "Helvetica", <<"I">>, 10)
        p5 == cell(p4, "10", <<"Path: ">> \o filepath)
    IN  ln(p5, "10")

\* lines 71-77: code font, the label of line num in gray, default colour
RendererStart(p, fname, num) ==
    LET p1 == set_font(p, fname, <<>>, FontSize)
        p2 == set_text_color(p1, Gray)
        p3 == cell(p2, "line_height", LabelText(num))
    IN  set_text_color(p3, default_text_color)

\* bold/italic applied whatever the font
FontStyleAnyFont(fname, style_def) ==
    (IF style_def.bold THEN <<"B">> ELSE <<>>)
        \o (IF style_def.italic THEN <<"I">> ELSE <<>>)

\* lines 84-91
FontStyle(fname, style_def) ==
    IF fname = "Courier"
    THEN (IF style_def.bold THEN <<"B">> ELSE <<>>)
             \o (IF style_def.italic THEN <<"I">> ELSE <<>>)
    ELSE <<>>

\* a write without the `if line` test
WriteSegmentAlways(p, line) == write(p, line)

\* lines 98-99
WriteSegment(p, line) ==
    IF line # <<>> THEN write(p, line) ELSE p

\* a break that restores the default colour after the label
LineBreakDefaultColor(st, color) ==
    LET p1 == ln(st.pdf, "line_height")
        n  == st.line_num + 1
        p2 == set_text_color(p1, Gray)
        p3 == cell(p2, "line_height", LabelText(n))
    IN  [st EXCEPT !.pdf = set_text_color(p3, default_text_color), !.line_num = n]

\* a break that paints the label before advancing line_num
LineBreakLabelFirst(st, color) ==
    LET p1 == ln(st.pdf, "line_height")
        p2 == set_text_color(p1, Gray)
        p3 == cell(p2, "line_height", LabelText(st.line_num))
    IN  [st EXCEPT !.pdf = set_text_color(p3, color),
                   !.line_num = st.line_num + 1]

\* lines 101-105
LineBreak(st, color) ==
    LET p1 == ln(st.pdf, "line_height")
        n  == st.line_num + 1
        p2 == set_text_color(p1, Gray)
        p3 == cell(p2, "line_height", LabelText(n))
    IN  [st EXCEPT !.pdf = set_text_color(p3, color), !.line_num = n]

\* lines 97-105: the loop over the segments from index i on; the write of
\* segment failAt raises (failAt = 0: nothing raises)
RECURSIVE SegmentLoop(_, _, _, _, _)
SegmentLoop(st, lines, i, color, failAt) ==
    IF i > Len(lines) THEN st
    ELSE IF lines[i] # <<>> /\ i = failAt THEN [st EXCEPT !.raised = TRUE]
    ELSE LET s1 == [st EXCEPT !.pdf = WriteSegment(st.pdf, lines[i])]
             s2 == IF i < Len(lines) THEN LineBreak(s1, color) ELSE s1
         IN  SegmentLoop(s2, lines, i + 1, color, failAt)

\* lines 81-105: one iteration of the token loop
RenderToken(p, num, fname, tok, failAt) ==
    LET style_def == style_for_token(tok.ttype)
        color == hex_to_rgb(style_def.color)
        p1 == set_font(p, fname, FontStyle(fname, style_def), FontSize)
        p2 == set_text_color(p1, color)
    IN  SegmentLoop([pdf |-> p2, line_num |-> num, raised |-> FALSE],
                    Split(tok.tvalue), 1, color, failAt)

\* line 107
RendererEnd(p) == set_text_color(p, default_text_color)

\* lines 109-112
ErrorMessage(filepath, e) ==
    <<"Error processing file ">> \o filepath \o <<": ", e>>

ExceptHandler(p, filepath, e) ==
    multi_cell(set_font(p, "Helvetica", <<>>, 12), ErrorMessage(filepath, e))

(***************************************************************************)
(* Inputs                                                                  *)
(***************************************************************************)
a_py      == <<"a", ".", "p", "y">>
a_test_py == <<"a", "_", "t", "e", "s", "t", ".", "p", "y">>
b_txt     == <<"b", ".", "t", "x", "t">>
a_PY      == <<"a", ".", "P", "Y">>

dot_py  == <<".", "p", "y">>
dot_txt == <<".", "t", "x", "t">>
dot_go  == <<".", "g", "o">>
test_py == <<"_", "t", "e", "s", "t", ".", "p", "y">>

Dir(root, files) == [root |-> root, files |-> files]

\* the directory of the specification's example
ExampleDir == << Dir(<<"d">>, <<a_py, a_test_py, b_txt>>) >>

OutputName == <<"output.pdf">>

Args(exts, excl, font) ==
    [extensions |-> exts, exclude_suffix |-> excl, font_path |-> font]

\* the command lines tried on ExampleDir: two files, one file or no file
\* to render, without and with a custom font
CommandLines ==
    { Args(<<dot_py>>, None, None),
      Args(<<dot_py>>, Some(<<test_py>>), None),
      Args(<<dot_py>>, Some(<<test_py>>), Some("font.ttf")),
      Args(<<dot_go>>, None, None),
      Args(<<dot_go>>, Some(<<test_py>>), Some("font.ttf")) }

(***************************************************************************)
(* main                                                                    *)
(***************************************************************************)
Init ==
    /\ pc = "main"
    /\ directory = ExampleDir
    /\ \E args \in CommandLines :
          /\ extensions = args.extensions
          /\ exclude_suffix = args.exclude_suffix
          /\ font_path = args.font_path
    /\ files_to_process = <<>>
    /\ stdout = <<>>
    /\ written = <<>>
    /\ calls = 0
    /\ font_name = "Courier"
    /\ fileIdx = 0
    /\ line_num = 0
    /\ pdf = NewPdf
    /\ consumed = <<>>
    /\ results = <<>>

\* a test that never takes the early return
NoFilesNever(files) == FALSE

\* line 130: `if not files_to_process`
NoFiles(files) == files = <<>>

\* lines 126-128
MainFind ==
    /\ pc = "main"
    /\ files_to_process' = find_files(directory, extensions, exclude_suffix)
    /\ pc' = "found"
    /\ UNCHANGED <<directory, extensions, exclude_suffix, font_path, stdout,
                   written, calls, font_name, fileIdx, line_num, pdf, consumed,
                   results>>

\* lines 130-132
MainNoFiles ==
    /\ pc = "found"
    /\ NoFiles(files_to_process)
    /\ stdout' = Append(stdout, "No files found with the specified extensions.")
    /\ pc' = "exit"
    /\ UNCHANGED <<directory, extensions, exclude_suffix, font_path,
                   files_to_process, written, calls, font_name, fileIdx,
                   line_num, pdf, consumed, results>>

\* line 134 and lines 38-50: create_pdf is entered; the custom font, if one
\* is given, loads or fails to load
CreatePdfBegin ==
    /\ pc = "found"
    /\ ~NoFiles(files_to_process)
    /\ calls' = calls + 1
    /\ pdf' = NewPdf
    /\ \/ /\ font_path = None
          /\ font_name' = "Courier"
          /\ UNCHANGED stdout
       \/ /\ font_path # None
          /\ font_name' = "CustomFont"
          /\ UNCHANGED stdout
       \/ /\ font_path # None
          /\ font_name' = "Courier"
          /\ stdout' = Append(stdout, "Warning: Could not load custom font")
    /\ fileIdx' = 1
    /\ pc' = "loop"
    /\ UNCHANGED <<directory, extensions, exclude_suffix, font_path,
                   files_to_process, written, line_num, consumed, results>>

(***************************************************************************)
(* create_pdf: the loop over the files                                     *)
(***************************************************************************)
filepath == files_to_process[fileIdx]

\* lines 52-60
StartFile ==
    /\ pc = "loop"
    /\ fileIdx <= Len(files_to_process)
    /\ pdf' = FileHeader(pdf, filepath)
    /\ consumed' = <<>>
    /\ pc' = "try"
    /\ UNCHANGED <<directory, extensions, exclude_suffix, font_path,
                   files_to_process, stdout, written, calls, font_name,
                   fileIdx, line_num, results>>

\* lines 63-77: the file is read, a lexer found, the line 1 label painted
OpenFile ==
    /\ pc = "try"
    /\ line_num' = 1
    /\ pdf' = RendererStart(pdf, font_name, line_num')
    /\ pc' = "tokens"
    /\ UNCHANGED <<directory, extensions, exclude_suffix, font_path,
                   files_to_process, stdout, written, calls, font_name,
                   fileIdx, consumed, results>>

\* an exception that ends the loop instead of going on to the next file
FileFailsAborts(p, e) ==
    /\ pdf' = ExceptHandler(p, filepath, e)
    /\ results' = Append(results, e)
    /\ fileIdx' = fileIdx
    /\ pc' = "exit"

\* the file finishes with exception e: lines 109-112, then the next file
FileFails(p, e) ==
    /\ pdf' = ExceptHandler(p, filepath, e)
    /\ results' = Append(results, e)
    /\ fileIdx' = fileIdx + 1
    /\ pc' = "loop"

\* lines 63-69 raise: open/read/decode, or guess_lexer
OpenFileFails ==
    /\ pc = "try"
    /\ \E e \in EarlyFailures : FileFails(pdf, e)
    /\ UNCHANGED <<directory, extensions, exclude_suffix, font_path,
                   files_to_process, stdout, written, calls, font_name,
                   line_num, consumed>>

\* lines 80-105: the lexer yields one more token and it is painted
NextToken ==
    /\ pc = "tokens"
    /\ Len(consumed) < MaxTokens
    /\ \E tok \in Tokens :
          LET st == RenderToken(pdf, line_num, font_name, tok, 0)
          IN  /\ consumed' = Append(consumed, tok)
              /\ pdf' = st.pdf
              /\ line_num' = st.line_num
    /\ UNCHANGED <<directory, extensions, exclude_suffix, font_path,
                   files_to_process, stdout, written, calls, font_name,
                   fileIdx, pc, results>>

\* line 80 or 81 raises before anything of the next token is painted: the
\* lexer's generator, or the style lookup
TokenStreamFails ==
    /\ pc = "tokens"
    /\ \E e \in StreamFailures : FileFails(pdf, e)
    /\ UNCHANGED <<directory, extensions, exclude_suffix, font_path,
                   files_to_process, stdout, written, calls, font_name,
                   line_num, consumed>>

\* line 99 raises on a non-empty segment of the token just yielded
PaintFails ==
    /\ pc = "tokens"
    /\ Len(consumed) < MaxTokens
    /\ \E tok \in Tokens : \E failAt \in 1..Len(Split(tok.tvalue)) :
          LET st == RenderToken(pdf, line_num, font_name, tok, failAt)
          IN  /\ st.raised
              /\ consumed' = Append(consumed, tok)
              /\ line_num' = st.line_num
              /\ FileFails(st.pdf, "paint")
    /\ UNCHANGED <<directory, extensions, exclude_suffix, font_path,
                   files_to_process, stdout, written, calls, font_name>>

\* the lexer's stream ends: line 107, then the next file
EndTokens ==
    /\ pc = "tokens"
    /\ pdf' = RendererEnd(pdf)
    /\ results' = Append(results, "ok")
    /\ fileIdx' = fileIdx + 1
    /\ pc' = "loop"
    /\ UNCHANGED <<directory, extensions, exclude_suffix, font_path,
                   files_to_process, stdout, written, calls, font_name,
                   line_num, consumed>>

\* lines 114-115
Finish ==
    /\ pc = "loop"
    /\ fileIdx > Len(files_to_process)
    /\ written' = Append(written, OutputName)
    /\ stdout' = Append(stdout, "Successfully generated")
    /\ pc' = "exit"
    /\ UNCHANGED <<directory, extensions, exclude_suffix, font_path,
                   files_to_process, calls, font_name, fileIdx, line_num, pdf,
                   consumed, results>>

Next ==
    \/ MainFind
    \/ MainNoFiles
    \/ CreatePdfBegin
    \/ StartFile
    \/ OpenFile
    \/ OpenFileFails
    \/ NextToken
    \/ TokenStreamFails
    \/ PaintFails
    \/ EndTokens
    \/ Finish

Spec == Init /\ [][Next]_vars

(***************************************************************************)
(* find_files on its own: a wider choice of directories and suffix lists   *)
(***************************************************************************)
FindNames == <<a_py, a_test_py, b_txt, a_PY>>

RECURSIVE Pick(_, _, _)
Pick(list, S, i) ==
    IF i > Len(list) THEN <<>>
    ELSE (IF i \in S THEN <<list[i]>> ELSE <<>>) \o Pick(list, S, i + 1)

FindDirs ==
    { << Dir(<<"d">>, Pick(FindNames, S, 1)), Dir(<<"d", "/", "s">>, sub) >> :
        S \in SUBSET (1..Len(FindNames)), sub \in { <<>>, <<a_py>> } }

InitFind ==
    /\ pc = "main"
    /\ directory \in FindDirs
    /\ extensions \in { <<dot_py>>, <<dot_txt, dot_py>>, <<dot_go>> }
    /\ exclude_suffix \in { None, Some(<<>>), Some(<<test_py>>), Some(<<dot_py>>),
                            Some(<<test_py, dot_txt>>) }
    /\ font_path = None
    /\ files_to_process = <<>>
    /\ stdout = <<>>
    /\ written = <<>>
    /\ calls = 0
    /\ font_name = "Courier"
    /\ fileIdx = 0
    /\ line_num = 0
    /\ pdf = NewPdf
    /\ consumed = <<>>
    /\ results = <<>>

SpecFind == InitFind /\ [][MainFind]_vars

(***************************************************************************)
(* Reading the painted calls                                               *)
(***************************************************************************)
Last(s) == s[Len(s)]

IsRun(ins) == ins.op = "write"
IsLabel(ins) == ins.op = "cell" /\ ins.h = "line_height"
IsBreak(ins) == ins.op = "ln" /\ ins.h = "line_height"
IsRendererOutput(ins) == IsRun(ins) \/ IsLabel(ins) \/ IsBreak(ins)

CountNL(s) == Cardinality({ i \in 1..Len(s) : s[i] = NL })

RECURSIVE Reconstruct(_)
Reconstruct(out) ==
    IF out = <<>> THEN <<>>
    ELSE (IF IsRun(Head(out)) THEN Head(out).txt
          ELSE IF IsBreak(Head(out)) THEN <<NL>>
          ELSE <<>>) \o Reconstruct(Tail(out))

RECURSIVE TokenText(_)
TokenText(toks) ==
    IF toks = <<>> THEN <<>> ELSE Head(toks).tvalue \o TokenText(Tail(toks))

RECURSIVE TotalBreaks(_)
TotalBreaks(toks) ==
    IF toks = <<>> THEN 0 ELSE CountNL(Head(toks).tvalue) + TotalBreaks(Tail(toks))

IsInfix(sub, s) ==
    \E i \in 1..(Len(s) - Len(sub) + 1) : SubSeq(s, i, i + Len(sub) - 1) = sub

\* the file being rendered, or just rendered, got through without error so far
RenderedSoFar ==
    \/ pc = "tokens"
    \/ pc \in {"loop", "exit"} /\ results # <<>> /\ Last(results) = "ok"

(***************************************************************************)
(* C1: for a file rendered without error, the run texts in emission order, *)
(* with a line break put in at every pdf.ln(line_height), are exactly the  *)
(* token texts concatenated in token order.                                *)
(***************************************************************************)
C1_Reconstruct ==
    RenderedSoFar => Reconstruct(pdf.out) = TokenText(consumed)

C1_Witness ==
    /\ pc = "loop"
    /\ results # <<>> /\ Last(results) = "ok"
    /\ Len(consumed) = 2
    /\ consumed[1].tvalue = <<NL, NL>>
    /\ consumed[2].tvalue = <<>>
    /\ Reconstruct(pdf.out) = <<NL, NL>>

(***************************************************************************)
(* C10: every pdf.write of the token loop has a non-empty text without a   *)
(* line break; splitting a token with k breaks gives k+1 segments, and an  *)
(* empty segment paints nothing but its break is still made.               *)
(***************************************************************************)
C10_Runs ==
    /\ \A i \in 1..Len(pdf.out) :
          IsRun(pdf.out[i]) =>
              /\ pdf.out[i].txt # <<>>
              /\ \A j \in 1..Len(pdf.out[i].txt) : pdf.out[i].txt[j] # NL
    /\ \A i \in 1..Len(consumed) :
          Len(Split(consumed[i].tvalue)) = CountNL(consumed[i].tvalue) + 1
    /\ RenderedSoFar =>
          Len(SelectSeq(pdf.out, IsBreak)) = TotalBreaks(consumed)

C10_Witness ==
    /\ pc = "tokens"
    /\ Len(consumed) = 1
    /\ consumed[1].tvalue = <<NL, NL>>
    /\ Len(SelectSeq(pdf.out, IsBreak)) = 2
    /\ SelectSeq(pdf.out, IsRun) = <<>>

(***************************************************************************)
(* C5: find_files yields exactly the files whose name ends with one of the *)
(* extensions and with none of the excluded suffixes (case-sensitive,      *)
(* exclusion wins, no exclude list is an empty one).                       *)
(***************************************************************************)
DirEntries ==
    { <<d, i>> : d \in 1..Len(directory), i \in 1..Len(FindNames) }

Accepted(file) ==
    /\ \E e \in 1..Len(extensions) : EndsWith(file, extensions[e])
    /\ \/ exclude_suffix = None
       \/ \A x \in 1..Len(exclude_suffix[1]) : ~EndsWith(file, exclude_suffix[1][x])

ExpectedFiles ==
    { PathJoin(directory[d].root, directory[d].files[i]) :
        <<d, i>> \in { e \in DirEntries :
                          /\ e[2] <= Len(directory[e[1]].files)
                          /\ Accepted(directory[e[1]].files[e[2]]) } }

C5_FindFiles ==
    pc = "found" =>
        /\ { files_to_process[i] : i \in 1..Len(files_to_process) } = ExpectedFiles
        /\ Len(files_to_process) = Cardinality(ExpectedFiles)
        /\ (/\ directory[1].files = <<a_py, a_test_py, b_txt>>
            /\ directory[2].files = <<>>
            /\ extensions = <<dot_py>>
            /\ exclude_suffix = Some(<<test_py>>))
               => files_to_process = << <<"d", "/">> \o a_py >>

C5_Witness ==
    /\ pc = "found"
    /\ directory[1].files = <<a_py, a_test_py, b_txt>>
    /\ directory[2].files = <<>>
    /\ extensions = <<dot_py>>
    /\ exclude_suffix = Some(<<test_py>>)
    /\ files_to_process = << <<"d", "/">> \o a_py >>

(***************************************************************************)
(* C6: with no matching file main reports it and returns: create_pdf is    *)
(* not invoked and nothing is written; with a matching file create_pdf is  *)
(* invoked once, with that non-empty list, and the output is written.      *)
(***************************************************************************)
NoFilesMessage == "No files found with the specified extensions."

C6_Main ==
    /\ calls <= 1
    /\ Len(written) <= calls
    /\ calls = 1 => files_to_process # <<>>
    /\ pc # "main" =>
          files_to_process = find_files(directory, extensions, exclude_suffix)
    /\ pc = "exit" =>
          IF files_to_process = <<>>
          THEN stdout = <<NoFilesMessage>> /\ calls = 0 /\ written = <<>>
          ELSE calls = 1 /\ written = <<OutputName>> /\ NoFilesMessage # Last(stdout)

C6_Witness ==
    /\ pc = "exit"
    /\ files_to_process = <<>>
    /\ stdout = <<NoFilesMessage>>
    /\ written = <<>>
    /\ calls = 0

(***************************************************************************)
(* One iteration of the token loop, seen as a step: the token taken up,    *)
(* and the calls it added to the page.                                     *)
(***************************************************************************)
TokenStep == pc = "tokens" /\ pc' = "tokens" /\ Len(consumed') = Len(consumed) + 1

StepToken == Last(consumed')

StepCalls == SubSeq(pdf'.out, Len(pdf.out) + 1, Len(pdf'.out))

ThemeColor(ttype) == hex_to_rgb(style_for_token(ttype).color)

ThemeStyle(ttype) ==
    (IF style_for_token(ttype).bold THEN <<"B">> ELSE <<>>)
        \o (IF style_for_token(ttype).italic THEN <<"I">> ELSE <<>>)

\* the step that opens the file and starts the renderer
OpenStep == pc = "try" /\ pc' = "tokens"

(***************************************************************************)
(* C2: a token with k >= 1 line breaks advances line_num exactly k times   *)
(* and paints exactly k labels, each in gray (128,128,128) and each        *)
(* followed by set_text_color of that token's own colour; the label of     *)
(* line 1 is followed by set_text_color of the default text colour.        *)
(***************************************************************************)
C2_TokenWithBreaks ==
    [][/\ OpenStep =>
            LET new == StepCalls
                lab == CHOOSE i \in 1..Len(new) : IsLabel(new[i])
            IN  /\ Len(SelectSeq(new, IsLabel)) = 1
                /\ new[lab].txt = LabelText(1)
                /\ new[lab].color = Gray
                /\ lab < Len(new)
                /\ new[lab + 1].op = "set_text_color"
                /\ new[lab + 1].color = default_text_color
       /\ (TokenStep /\ CountNL(StepToken.tvalue) >= 1) =>
            LET k == CountNL(StepToken.tvalue)
                new == StepCalls
            IN  /\ line_num' = line_num + k
                /\ Len(SelectSeq(new, IsLabel)) = k
                /\ \A i \in 1..Len(new) :
                      IsLabel(new[i]) =>
                          /\ new[i].color = Gray
                          /\ i < Len(new)
                          /\ new[i + 1].op = "set_text_color"
                          /\ new[i + 1].color = ThemeColor(StepToken.ttype)
                          /\ pdf'.text_color = ThemeColor(StepToken.ttype)]_vars

C2_Witness ==
    /\ pc = "tokens"
    /\ Len(consumed) = 2
    /\ consumed[2] = [ttype |-> "Keyword", tvalue |-> <<NL, NL>>]
    /\ line_num = 3
    /\ Last(pdf.out).op = "set_text_color"
    /\ Last(pdf.out).color = <<0, 136, 0>>

(***************************************************************************)
(* C3 as stated: a token without line breaks paints exactly one run, in    *)
(* the colour and the bold/italic style the theme gives its kind, and      *)
(* line_num does not advance.                                              *)
(***************************************************************************)
C3_AsStated ==
    [][(TokenStep /\ CountNL(StepToken.tvalue) = 0) =>
          LET runs == SelectSeq(StepCalls, IsRun)
          IN  /\ line_num' = line_num
              /\ Len(runs) = 1
              /\ runs[1].txt = StepToken.tvalue
              /\ runs[1].color = ThemeColor(StepToken.ttype)
              /\ runs[1].font.style = ThemeStyle(StepToken.ttype)]_vars

(***************************************************************************)
(* C3 amended: a token without line breaks does not advance line_num; if   *)
(* its text is non-empty it paints exactly one run, in the colour the      *)
(* theme gives its kind, in the theme's bold/italic style when the code    *)
(* font is the built-in Courier and in regular style when a custom font    *)
(* was loaded; if its text is empty it paints no run.                      *)
(***************************************************************************)
C3_TokenWithoutBreaks ==
    [][(TokenStep /\ CountNL(StepToken.tvalue) = 0) =>
          LET runs == SelectSeq(StepCalls, IsRun)
          IN  /\ line_num' = line_num
              /\ SelectSeq(StepCalls, IsLabel) = <<>>
              /\ SelectSeq(StepCalls, IsBreak) = <<>>
              /\ StepToken.tvalue = <<>> => runs = <<>>
              /\ StepToken.tvalue # <<>> =>
                    /\ Len(runs) = 1
                    /\ runs[1].txt = StepToken.tvalue
                    /\ runs[1].color = ThemeColor(StepToken.ttype)
                    /\ runs[1].font.family = font_name
                    /\ runs[1].font.style =
                          IF font_name = "Courier" THEN ThemeStyle(StepToken.ttype)
                          ELSE <<>>]_vars

C3_Witness ==
    /\ pc = "tokens"
    /\ font_name = "CustomFont"
    /\ Len(consumed) = 2
    /\ consumed[1] = [ttype |-> "Comment", tvalue |-> <<>>]
    /\ consumed[2] = [ttype |-> "Keyword", tvalue |-> <<"a">>]
    /\ line_num = 1
    /\ SelectSeq(pdf.out, IsRun) =
          << [op |-> "write", txt |-> <<"a">>, h |-> "line_height",
              color |-> <<0, 136, 0>>,
              font |-> Font("CustomFont", <<>>, FontSize)] >>

(***************************************************************************)
(* The pages of the document so far: per file, the page start, the two     *)
(* header cells and the error paragraph if there is one.                   *)
(***************************************************************************)
AllPages ==
    pdf.done \o (IF pdf.out = <<>> THEN <<>>
                 ELSE << SelectSeq(pdf.out, IsHeaderOrError) >>)

Started == Len(results) + (IF pc \in {"try", "tokens"} THEN 1 ELSE 0)

(***************************************************************************)
(* C4: whatever files fail inside the try block (read, decode, lexer       *)
(* choice, tokenizing, painting), every file of the list gets its page and *)
(* header, in order; a failing file gets an error paragraph with its path  *)
(* and the failure reason; the loop goes on; the document is written       *)
(* exactly once, after the last file.                                      *)
(***************************************************************************)
C4_Isolation ==
    /\ Len(AllPages) = Started
    /\ \A i \in 1..Len(AllPages) :
          LET pg == AllPages[i]
              path == files_to_process[i]
          IN  /\ Len(pg) >= 3
              /\ pg[1].op = "add_page"
              /\ pg[2].op = "cell" /\ IsInfix(Basename(path), pg[2].txt)
              /\ pg[3].op = "cell" /\ IsInfix(path, pg[3].txt)
              /\ IF i <= Len(results) /\ results[i] # "ok"
                 THEN /\ Len(pg) = 4
                      /\ pg[4].op = "multi_cell"
                      /\ IsInfix(path, pg[4].txt)
                      /\ IsInfix(<<results[i]>>, pg[4].txt)
                 ELSE Len(pg) = 3
    /\ pc # "exit" => written = <<>>
    /\ (pc = "exit" /\ calls = 1) =>
          /\ Len(results) = Len(files_to_process)
          /\ written = <<OutputName>>

C4_Witness ==
    /\ pc = "exit"
    /\ Len(files_to_process) = 2
    /\ results = <<"paint", "ok">>
    /\ written = <<OutputName>>
    /\ Len(AllPages) = 2
    /\ Len(AllPages[1]) = 4
    /\ Len(AllPages[2]) = 3

(***************************************************************************)
(* C8: in a rendered file the label of line 1 comes before every run and   *)
(* break, every later label comes right after a pdf.ln(line_height) and    *)
(* every such break is followed by a label, and the labels carry 1, 2, 3,  *)
(* ... in order, starting from 1 again in every file.                      *)
(***************************************************************************)
C8_Labels ==
    LET body == SelectSeq(pdf.out, IsRendererOutput)
        labels == SelectSeq(pdf.out, IsLabel)
    IN  /\ pc = "tokens" => body # <<>> /\ line_num = Len(labels)
        /\ body # <<>> => IsLabel(body[1]) /\ ~IsBreak(Last(body))
        /\ \A i \in 1..Len(labels) : labels[i].txt = LabelText(i)
        /\ \A i \in 2..Len(body) : IsLabel(body[i]) <=> IsBreak(body[i - 1])

C8_Witness ==
    /\ pc = "tokens"
    /\ fileIdx = 2
    /\ results = <<"ok">>
    /\ Len(consumed) = 2
    /\ line_num = 4
    /\ Last(SelectSeq(pdf.out, IsLabel)).txt = <<" ", " ", " ", "4", " ">>

(***************************************************************************)
(* C7 as stated: when the lexer's token stream or the style lookup fails   *)
(* for a file, the page holds no line-number label and no run of that      *)
(* file, only the error paragraph.                                         *)
(***************************************************************************)
C7_AsStated ==
    (pc \in {"loop", "exit"} /\ results # <<>> /\ Last(results) \in StreamFailures)
        => SelectSeq(pdf.out, IsRendererOutput) = <<>>

(***************************************************************************)
(* C9 as stated: what is painted after a file's tokens, its error          *)
(* paragraph or the next file's header, is painted in the default text     *)
(* colour, not in the last token's colour or the label gray.               *)
(***************************************************************************)
C9_AsStated ==
    \A i \in 1..Len(AllPages) : \A j \in 1..Len(AllPages[i]) :
        AllPages[i][j].op \in {"cell", "multi_cell"} =>
            AllPages[i][j].color = default_text_color

====
